---- MODULE Spec2Model ----
(***************************************************************************)
(* webOS Build Dashboard (app.py): the command runner, the git inspector,  *)
(* the build-status reader, the emulator process listing and the           *)
(* documentation endpoint, each as a state machine over the part of the    *)
(* operating system it reads.                                              *)
(*                                                                         *)
(* Text that the code trims, splits or compares is a sequence of           *)
(* one-character strings; text that is only passed along is a string.      *)
(***************************************************************************)
EXTENDS Integers, Sequences, FiniteSets, TLC

VARIABLES
    git_pc,          \* position of get_git_info: which run_command call is next
    git_outcome,     \* what subprocess.run did for each of the three commands
    branch_result,   \* get_git_info's local branch_result
    commit_result,   \* get_git_info's local commit_result
    status_result,   \* get_git_info's local status_result
    git_info,        \* the value get_git_info returned
    oe_init_exists,  \* BASE_DIR/oe-init-build-env exists
    local_conf,      \* BASE_DIR/conf/local.conf: presence, readability, lines
    build_tree,      \* BASE_DIR/BUILD and BUILD/deploy/images with its entries
    tz,              \* the host's local time zone
    build_pc,        \* position of get_build_status
    build_status,    \* the value get_build_status returned
    docs_fs,         \* the files and directories at and below BASE_DIR
    docs_request,    \* the request api_docs is answering
    docs_response,   \* the response api_docs gave
    proc_table,      \* the operating system's process table
    qemu_pc,         \* position of api_qemu_list
    iter_pids,       \* process_iter: the pids still to be visited
    processes,       \* get_qemu_processes' local list
    qemu_response,   \* the response api_qemu_list is building
    table_changed    \* a process started or exited since the request began

git_vars == <<git_pc, git_outcome, branch_result, commit_result, status_result, git_info>>

build_vars == <<oe_init_exists, local_conf, build_tree, tz, build_pc, build_status>>

docs_vars == <<docs_fs, docs_request, docs_response>>

qemu_vars ==
    <<proc_table, qemu_pc, iter_pids, processes, qemu_response, table_changed>>

vars == <<git_vars, build_vars, docs_vars, qemu_vars>>

None == "None"

-----------------------------------------------------------------------------
(* Bounds *)

MaxOut == 2          \* longest stdout of a git command, in characters

MaxLines == 2        \* most lines of conf/local.conf

MaxBody == 3         \* most characters of a local.conf line after its first word

MaxTime == 2         \* latest modification time of an image, in half hours

MaxSegs == 3         \* most path segments of a requested documentation file

MaxPid == 2          \* largest process id

-----------------------------------------------------------------------------
(* Text helpers: Python's str methods on sequences of characters *)

Whitespace == {" ", "\n"}

RECURSIVE LStrip(_, _)
LStrip(s, chars) ==
    IF s # <<>> /\ Head(s) \in chars THEN LStrip(Tail(s), chars) ELSE s

RECURSIVE RStrip(_, _)
RStrip(s, chars) ==
    IF s # <<>> /\ s[Len(s)] \in chars THEN RStrip(SubSeq(s, 1, Len(s) - 1), chars) ELSE s

\* str.strip(chars): every leading and trailing character of the set removed
StripChars(s, chars) == RStrip(LStrip(s, chars), chars)

\* str.strip()
Strip(s) == StripChars(s, Whitespace)

SeqsUpTo(S, n) == UNION {[1..k -> S] : k \in 0..n}

\* str.startswith
StartsWith(s, prefix) ==
    Len(s) >= Len(prefix) /\ SubSeq(s, 1, Len(prefix)) = prefix

\* str.split(sep) for a one-character separator: the pieces between the
\* occurrences of sep, in order (one more piece than occurrences)
RECURSIVE Split(_, _)
Split(s, sep) ==
    IF \A i \in 1..Len(s) : s[i] # sep
    THEN <<s>>
    ELSE LET k == CHOOSE i \in 1..Len(s) :
                      s[i] = sep /\ \A j \in 1..(i - 1) : s[j] # sep
         IN  <<SubSeq(s, 1, k - 1)>> \o Split(SubSeq(s, k + 1, Len(s)), sep)

\* comparison of two Python strings: by the first differing character, a
\* proper prefix before the longer string (characters given by their codes)
RECURSIVE StrLess(_, _)
StrLess(a, b) ==
    IF b = <<>> THEN FALSE
    ELSE IF a = <<>> THEN TRUE
    ELSE IF Head(a) # Head(b) THEN Head(a) < Head(b)
    ELSE StrLess(Tail(a), Tail(b))

-----------------------------------------------------------------------------
(* CommandRunner: run_command *)

OutChars == {" ", "m"}

ExitCodes == {0, 128}

StderrTexts == {"", "fatal: not a git repository"}

\* What subprocess.run(cmd, shell=True, capture_output=True, text=True,
\* timeout=30) can do: complete with an exit code and the captured streams,
\* raise TimeoutExpired, or raise another Exception (the process could not be
\* spawned, the working directory is missing, the output cannot be decoded).
SubprocessOutcomes ==
    [kind : {"completed"}, returncode : ExitCodes,
     stdout : SeqsUpTo(OutChars, MaxOut), stderr : StderrTexts]
    \cup [kind : {"TimeoutExpired"}, returncode : {0}, stdout : {<<>>},
          stderr : {"Command 'git' timed out after 30 seconds"}]
    \cup [kind : {"OSError"}, returncode : {0}, stdout : {<<>>},
          stderr : {"[Errno 2] No such file or directory"}]

\* The except clause for TimeoutExpired left out: the timeout is reported by
\* the generic handler, with the exception's own message.
run_command_no_timeout_clause(o) ==
    IF o.kind = "completed"
    THEN [success |-> o.returncode = 0, stdout |-> o.stdout,
          stderr |-> o.stderr, returncode |-> o.returncode]
    ELSE [success |-> FALSE, stdout |-> <<>>, stderr |-> o.stderr, returncode |-> -1]

run_command(o) ==
    IF o.kind = "completed"
    THEN [success |-> o.returncode = 0, stdout |-> o.stdout,
          stderr |-> o.stderr, returncode |-> o.returncode]
    ELSE IF o.kind = "TimeoutExpired"
    THEN [success |-> FALSE, stdout |-> <<>>,
          stderr |-> "Command timed out", returncode |-> -1]
    ELSE [success |-> FALSE, stdout |-> <<>>, stderr |-> o.stderr, returncode |-> -1]

-----------------------------------------------------------------------------
(* GitInspector: get_git_info *)

GitCommands == {"branch", "commit", "status"}

unknown == <<"u", "n", "k", "n", "o", "w", "n">>

\* dirty computed from the output alone, the success test left out
git_info_dirty_ignores_success(b, c, s) ==
    [branch |-> IF b.success THEN Strip(b.stdout) ELSE unknown,
     commit |-> IF c.success THEN Strip(c.stdout) ELSE unknown,
     dirty  |-> Strip(s.stdout) # <<>>,
     status |-> IF s.success THEN Strip(s.stdout) ELSE <<>>]

\* the commit field guarded by the branch command's success
git_info_commit_follows_branch(b, c, s) ==
    [branch |-> IF b.success THEN Strip(b.stdout) ELSE unknown,
     commit |-> IF b.success THEN Strip(c.stdout) ELSE unknown,
     dirty  |-> IF s.success THEN Strip(s.stdout) # <<>> ELSE FALSE,
     status |-> IF s.success THEN Strip(s.stdout) ELSE <<>>]

\* the dictionary get_git_info returns
git_info_of(b, c, s) ==
    [branch |-> IF b.success THEN Strip(b.stdout) ELSE unknown,
     commit |-> IF c.success THEN Strip(c.stdout) ELSE unknown,
     dirty  |-> IF s.success THEN Strip(s.stdout) # <<>> ELSE FALSE,
     status |-> IF s.success THEN Strip(s.stdout) ELSE <<>>]

\* a command that has not been run yet, and a local not assigned yet
NoOutcome == [kind |-> "none", returncode |-> 0, stdout |-> <<>>, stderr |-> ""]

NoResult == [success |-> FALSE, stdout |-> <<>>, stderr |-> "", returncode |-> 0]

InitGit ==
    /\ git_pc = "idle"
    /\ git_outcome = [c \in GitCommands |-> NoOutcome]
    /\ branch_result = NoResult
    /\ commit_result = NoResult
    /\ status_result = NoResult
    /\ git_info = None

\* /api/git or /api/status is requested: get_git_info is entered
ApiGit ==
    /\ git_pc \in {"idle", "returned"}
    /\ git_pc' = "branch"
    /\ git_outcome' = [c \in GitCommands |-> NoOutcome]
    /\ branch_result' = NoResult
    /\ commit_result' = NoResult
    /\ status_result' = NoResult
    /\ git_info' = None
    /\ UNCHANGED <<build_vars, docs_vars, qemu_vars>>

RunBranch ==
    /\ git_pc = "branch"
    /\ \E o \in SubprocessOutcomes :
          /\ git_outcome' = [git_outcome EXCEPT !["branch"] = o]
          /\ branch_result' = run_command(o)
    /\ git_pc' = "commit"
    /\ UNCHANGED <<commit_result, status_result, git_info>>
    /\ UNCHANGED <<build_vars, docs_vars, qemu_vars>>

RunCommit ==
    /\ git_pc = "commit"
    /\ \E o \in SubprocessOutcomes :
          /\ git_outcome' = [git_outcome EXCEPT !["commit"] = o]
          /\ commit_result' = run_command(o)
    /\ git_pc' = "status"
    /\ UNCHANGED <<branch_result, status_result, git_info>>
    /\ UNCHANGED <<build_vars, docs_vars, qemu_vars>>

RunStatus ==
    /\ git_pc = "status"
    /\ \E o \in SubprocessOutcomes :
          /\ git_outcome' = [git_outcome EXCEPT !["status"] = o]
          /\ status_result' = run_command(o)
    /\ git_pc' = "return"
    /\ UNCHANGED <<branch_result, commit_result, git_info>>
    /\ UNCHANGED <<build_vars, docs_vars, qemu_vars>>

GitReturn ==
    /\ git_pc = "return"
    /\ git_info' = git_info_of(branch_result, commit_result, status_result)
    /\ git_pc' = "returned"
    /\ UNCHANGED <<git_outcome, branch_result, commit_result, status_result>>
    /\ UNCHANGED <<build_vars, docs_vars, qemu_vars>>

-----------------------------------------------------------------------------
(* BuildStatusReader: get_build_status *)

MACHINE == <<"M", "A", "C", "H", "I", "N", "E">>

\* status['machine'] = None, status['last_build'] = None
Null == <<"None">>

\* the for loop over the lines of local.conf: the first line that starts
\* with MACHINE (after trimming) and holds an '=' sets machine and ends the
\* loop; a MACHINE line without '=' is passed over
RECURSIVE scan_machine(_)
scan_machine(lines) ==
    IF lines = <<>> THEN Null
    ELSE LET line  == Head(lines)
             parts == Split(line, "=")
         IN  IF StartsWith(Strip(line), MACHINE) /\ Len(parts) > 1
             THEN StripChars(StripChars(Strip(parts[2]), {"\""}), {"'"})
             ELSE scan_machine(Tail(lines))

\* local.conf is opened and scanned only when it exists; an error of open or
\* of the read is swallowed
read_machine(conf) ==
    IF conf.exists /\ conf.readable THEN scan_machine(conf.lines) ELSE Null

\* datetime.fromtimestamp(t): the naive local wall-clock time of t. Times
\* are counted in half hours. In a zone with daylight saving the clock is an
\* hour (two half hours) ahead until the saving time ends, here one half hour
\* after time 0.
fromtimestamp(zone, t) == IF zone = "Europe/Berlin" /\ t < 1 THEN t + 2 ELSE t

\* datetime.isoformat(): fixed-width, zero-padded decimal fields, most
\* significant first
isoformat(w) == <<w \div 10, w % 10>>

IsWic(name) == name \in {"webos-image.wic", "core-image.wic"}

\* machine_dir.glob("*.wic") and the append of one entry per match, in the
\* order the directory yields them
RECURSIVE images_of(_, _, _)
images_of(zone, machine, files) ==
    IF files = <<>> THEN <<>>
    ELSE LET img == Head(files)
         IN  (IF IsWic(img.name)
              THEN <<[machine |-> machine, image |-> img.name, size |-> img.size,
                      modified |-> isoformat(fromtimestamp(zone, img.mtime))]>>
              ELSE <<>>)
             \o images_of(zone, machine, Tail(files))

\* for machine_dir in deploy_dir.iterdir(): if machine_dir.is_dir(): ...
RECURSIVE collect_builds(_, _)
collect_builds(zone, entries) ==
    IF entries = <<>> THEN <<>>
    ELSE LET d == Head(entries)
         IN  (IF d.is_dir THEN images_of(zone, d.name, d.files) ELSE <<>>)
             \o collect_builds(zone, Tail(entries))

\* x placed behind every entry whose key is not smaller than its own
RECURSIVE insert_desc(_, _)
insert_desc(x, sorted) ==
    IF sorted = <<>> THEN <<x>>
    ELSE IF StrLess(Head(sorted).modified, x.modified)
    THEN <<x>> \o sorted
    ELSE <<Head(sorted)>> \o insert_desc(x, Tail(sorted))

\* list.sort(key=lambda x: x['modified'], reverse=True): descending by the
\* string key, entries with equal keys in their original order
RECURSIVE sort_desc(_)
sort_desc(builds) ==
    IF builds = <<>> THEN <<>>
    ELSE insert_desc(builds[Len(builds)], sort_desc(SubSeq(builds, 1, Len(builds) - 1)))

\* configured set from the presence of local.conf instead of the marker
get_build_status_conf_marker(marker, conf, tree, zone) ==
    LET builds == IF tree.build_dir /\ tree.deploy_dir
                  THEN sort_desc(collect_builds(zone, tree.entries)) ELSE <<>>
    IN  [configured |-> conf.exists,
         machine    |-> IF marker THEN read_machine(conf) ELSE Null,
         builds     |-> builds,
         last_build |-> IF builds # <<>> THEN builds[1] ELSE Null]

get_build_status(marker, conf, tree, zone) ==
    LET builds == IF tree.build_dir /\ tree.deploy_dir
                  THEN sort_desc(collect_builds(zone, tree.entries)) ELSE <<>>
    IN  [configured |-> marker,
         machine    |-> IF marker THEN read_machine(conf) ELSE Null,
         builds     |-> builds,
         last_build |-> IF builds # <<>> THEN builds[1] ELSE Null]

NoStatus == [configured |-> FALSE, machine |-> Null, builds |-> <<>>, last_build |-> Null]

\* /api/build/status or /api/status is requested
GetBuildStatus ==
    /\ build_pc = "idle"
    /\ build_status' = get_build_status(oe_init_exists, local_conf, build_tree, tz)
    /\ build_pc' = "returned"
    /\ UNCHANGED <<oe_init_exists, local_conf, build_tree, tz>>
    /\ UNCHANGED <<git_vars, docs_vars, qemu_vars>>

\* the response has been sent; the next request starts from a fresh dictionary
BuildDone ==
    /\ build_pc = "returned"
    /\ build_pc' = "idle"
    /\ build_status' = NoStatus
    /\ UNCHANGED <<oe_init_exists, local_conf, build_tree, tz>>
    /\ UNCHANGED <<git_vars, docs_vars, qemu_vars>>

(* The file system and the host get_build_status can find *)

ConfChars == {" ", "=", "\"", "'", "x"}

LinePrefixes == {<<>>, MACHINE, <<" ">> \o MACHINE}

ConfLines == {p \o b : p \in LinePrefixes, b \in SeqsUpTo(ConfChars, MaxBody)}

NoConf == [exists |-> FALSE, readable |-> FALSE, lines |-> <<>>]

LocalConfs ==
    {NoConf}
    \cup [exists : {TRUE}, readable : {FALSE}, lines : {<<>>}]
    \cup [exists : {TRUE}, readable : {TRUE}, lines : SeqsUpTo(ConfLines, MaxLines)]

\* a few configuration files, for the runs that vary the image tree
SomeConfs ==
    {NoConf,
     [exists |-> TRUE, readable |-> FALSE, lines |-> <<>>],
     [exists |-> TRUE, readable |-> TRUE, lines |-> << <<"x", "=", "x">> >>],
     [exists |-> TRUE, readable |-> TRUE, lines |-> <<MACHINE \o <<"=", "x">> >>]}

MachineDirs == {"qemux86", "raspberrypi4"}

ImageNames == {"webos-image.wic", "core-image.wic", "webos-image.ext4"}

Injective(f) == \A i, j \in DOMAIN f : f[i] = f[j] => i = j

Images == [name : ImageNames, size : {4096}, mtime : 0..MaxTime]

\* the listings of one machine directory: no file name twice
FileLists ==
    {fl \in SeqsUpTo(Images, 2) : Injective([i \in DOMAIN fl |-> fl[i].name])}

DeployEntries ==
    [name : MachineDirs, is_dir : {TRUE}, files : FileLists]
    \cup [name : MachineDirs, is_dir : {FALSE}, files : {<<>>}]

NoTree == [build_dir |-> FALSE, deploy_dir |-> FALSE, entries |-> <<>>]

BuildTrees ==
    {NoTree, [build_dir |-> TRUE, deploy_dir |-> FALSE, entries |-> <<>>]}
    \cup {[build_dir |-> TRUE, deploy_dir |-> TRUE, entries |-> es] :
             es \in {e \in SeqsUpTo(DeployEntries, 2) :
                        Injective([i \in DOMAIN e |-> e[i].name])}}

SomeTrees ==
    {NoTree,
     [build_dir |-> TRUE, deploy_dir |-> TRUE,
      entries |-> <<[name |-> "qemux86", is_dir |-> TRUE,
                     files |-> <<[name |-> "webos-image.wic", size |-> 4096, mtime |-> 0]>>]>>]}

Zones == {"UTC", "Europe/Berlin"}

-----------------------------------------------------------------------------
(* DocRenderer: api_docs *)

BASE_DIR == <<"srv">>

DOCS_DIR == BASE_DIR \o <<"docs">>

AbsentNode == [kind |-> "absent", readable |-> FALSE, content |-> ""]

DirNode == [kind |-> "dir", readable |-> TRUE, content |-> ""]

\* the node at an absolute path; the root and BASE_DIR are directories
NodeAt(fs, path) ==
    IF path \in {<<>>, BASE_DIR} THEN DirNode
    ELSE IF path \in DOMAIN fs THEN fs[path]
    ELSE AbsentNode

NoEntry == <<"ENOENT">>

\* The operating system's resolution of a relative path from the directory
\* cur: every segment but the last is looked up in an existing directory,
\* ".." names the parent (the root is its own parent). pathlib's
\* DOCS_DIR / filename keeps the ".." segments for the system to resolve.
RECURSIVE Walk(_, _, _)
Walk(fs, cur, segs) ==
    IF segs = <<>> THEN cur
    ELSE IF NodeAt(fs, cur).kind # "dir" THEN NoEntry
    ELSE IF Head(segs) = ".."
    THEN Walk(fs, IF cur = <<>> THEN <<>> ELSE SubSeq(cur, 1, Len(cur) - 1), Tail(segs))
    ELSE Walk(fs, cur \o <<Head(segs)>>, Tail(segs))

\* the file DOCS_DIR / filename names
doc_path(fs, filename) == Walk(fs, DOCS_DIR, filename)

DocNode(fs, filename) ==
    IF doc_path(fs, filename) = NoEntry THEN AbsentNode
    ELSE NodeAt(fs, doc_path(fs, filename))

\* filename.endswith('.md'): decided by the last segment
MdSegments == {"guide.md"}

EndsWithMd(filename) == filename[Len(filename)] \in MdSegments

\* markdown2.markdown(content, extras=[...]) on the texts of the model
markdown(content) ==
    CASE content = "# Title" -> "<h1 id=\"title\">Title</h1>\n"
      [] content = "text" -> "<p>text</p>\n"

\* a failed read answered as a missing file
api_docs_read_error_404(fs, filename, md_raises) ==
    LET node == DocNode(fs, filename)
    IN  IF node.kind # "file" \/ ~node.readable
        THEN [status |-> 404, body |-> [error |-> "Documentation file not found"]]
        ELSE IF EndsWithMd(filename)
        THEN IF md_raises
             THEN [status |-> 500, body |-> [error |-> "markdown conversion failed"]]
             ELSE [status |-> 200,
                   body |-> [filename |-> filename, content |-> markdown(node.content),
                             format |-> "html"]]
        ELSE [status |-> 200,
              body |-> [filename |-> filename, content |-> node.content,
                        format |-> "text"]]

\* the response of GET /api/docs/<path:filename>; md_raises: the markdown
\* renderer raises on this content
api_docs(fs, filename, md_raises) ==
    LET node == DocNode(fs, filename)
    IN  IF node.kind = "absent"
        THEN [status |-> 404, body |-> [error |-> "Documentation file not found"]]
        ELSE IF node.kind = "dir"
        THEN [status |-> 500, body |-> [error |-> "[Errno 21] Is a directory"]]
        ELSE IF ~node.readable
        THEN [status |-> 500, body |-> [error |-> "[Errno 13] Permission denied"]]
        ELSE IF EndsWithMd(filename)
        THEN IF md_raises
             THEN [status |-> 500, body |-> [error |-> "markdown conversion failed"]]
             ELSE [status |-> 200,
                   body |-> [filename |-> filename, content |-> markdown(node.content),
                             format |-> "html"]]
        ELSE [status |-> 200,
              body |-> [filename |-> filename, content |-> node.content,
                        format |-> "text"]]

Segments == {"..", "guide.md", "notes.txt", "sub", "app.py"}

Filenames == SeqsUpTo(Segments, MaxSegs) \ {<<>>}

NoRequest == [filename |-> <<>>, md_raises |-> FALSE]

NoResponse == [status |-> 0, body |-> [error |-> ""]]

ApiDocs ==
    /\ docs_response.status = 0
    /\ \E filename \in Filenames, md_raises \in BOOLEAN :
          /\ docs_request' = [filename |-> filename, md_raises |-> md_raises]
          /\ docs_response' = api_docs(docs_fs, filename, md_raises)
    /\ UNCHANGED docs_fs
    /\ UNCHANGED <<git_vars, build_vars, qemu_vars>>

\* the response has been sent
DocsDone ==
    /\ docs_response.status # 0
    /\ docs_request' = NoRequest
    /\ docs_response' = NoResponse
    /\ UNCHANGED docs_fs
    /\ UNCHANGED <<git_vars, build_vars, qemu_vars>>

(* The files api_docs can find *)

DocContents == {"# Title", "text"}

DocFiles ==
    {AbsentNode}
    \cup [kind : {"file"}, readable : {FALSE}, content : {""}]
    \cup [kind : {"file"}, readable : {TRUE}, content : DocContents]

AppPy == BASE_DIR \o <<"app.py">>

GuideMd == DOCS_DIR \o <<"guide.md">>

NotesTxt == DOCS_DIR \o <<"notes.txt">>

SubDir == DOCS_DIR \o <<"sub">>

SourceFile == [kind |-> "file", readable |-> TRUE, content |-> "import os"]

\* app.py is always there; docs/ may be missing, and then so is what it holds
DocTrees ==
    {(AppPy :> SourceFile) @@ (DOCS_DIR :> AbsentNode) @@ (GuideMd :> AbsentNode)
        @@ (NotesTxt :> AbsentNode) @@ (SubDir :> AbsentNode)}
      \cup {(AppPy :> SourceFile) @@ (DOCS_DIR :> DirNode) @@ (GuideMd :> g)
            @@ (NotesTxt :> n) @@ (SubDir :> d) :
             g \in DocFiles, n \in DocFiles, d \in {AbsentNode, DirNode}}

NoDocs ==
    (AppPy :> SourceFile) @@ (DOCS_DIR :> AbsentNode) @@ (GuideMd :> AbsentNode)
        @@ (NotesTxt :> AbsentNode) @@ (SubDir :> AbsentNode)

DocsIdle ==
    /\ docs_fs = NoDocs
    /\ docs_request = NoRequest
    /\ docs_response = NoResponse

-----------------------------------------------------------------------------
(* ProcessInspector: get_qemu_processes, and api_qemu_list *)

Pids == 1..MaxPid

qemu == <<"q", "e", "m", "u">>

LowerChar(c) ==
    CASE c = "Q" -> "q" [] c = "E" -> "e" [] c = "M" -> "m" [] c = "U" -> "u"
      [] OTHER -> c

\* str.lower
Lower(s) == [i \in DOMAIN s |-> LowerChar(s[i])]

\* sub in s
Contains(s, sub) ==
    \E i \in 1..(Len(s) - Len(sub) + 1) : SubSeq(s, i, i + Len(sub) - 1) = sub

\* ' '.join(args)
RECURSIVE Join(_)
Join(args) ==
    IF args = <<>> THEN <<>>
    ELSE IF Len(args) = 1 THEN args[1]
    ELSE args[1] \o <<" ">> \o Join(Tail(args))

ProcNames ==
    {<<"b", "a", "s", "h">>, <<"q", "e", "m", "u", "-", "x", "8", "6">>,
     <<"Q", "E", "M", "U">>}

\* denied: the attribute the operating system refuses to give (AccessDenied
\* while process_iter fills proc.info, which then holds None for it)
Procs == [name : ProcNames, denied : {"nothing", "name", "create_time", "cmdline"}]

NoProc == [name |-> <<>>, denied |-> "gone"]

Alive(table, pid) == table[pid] # NoProc

\* psutil.pids(): the ids of the running processes, ascending
RECURSIVE pids_from(_, _)
pids_from(table, pid) ==
    IF pid > MaxPid THEN <<>>
    ELSE (IF Alive(table, pid) THEN <<pid>> ELSE <<>>) \o pids_from(table, pid + 1)

\* the entry appended for a process whose name holds "qemu"
qemu_entry(pid, proc) ==
    [pid |-> pid, name |-> proc.name,
     cmdline |-> IF proc.denied = "cmdline" THEN <<>> ELSE Join(<<proc.name, <<"-m">> >>),
     started |-> isoformat(fromtimestamp("UTC", 0))]

\* The body of the for loop, for a process that still exists. "raise": an
\* exception the except clause does not name (None has no lower(),
\* fromtimestamp(None)); "append": an entry is added; "pass": not a qemu process
loop_body(proc) ==
    IF proc.denied = "name" THEN "raise"
    ELSE IF ~Contains(Lower(proc.name), qemu) THEN "pass"
    ELSE IF proc.denied = "create_time" THEN "raise"
    ELSE "append"

NoList == [status |-> 0, processes |-> <<>>, count |-> 0]

\* GET /api/qemu/list: the first get_qemu_processes() call starts
ApiQemuList ==
    /\ qemu_pc = "idle"
    /\ qemu_pc' = "processes"
    /\ iter_pids' = pids_from(proc_table, 1)
    /\ processes' = <<>>
    /\ qemu_response' = NoList
    /\ table_changed' = FALSE
    /\ UNCHANGED proc_table
    /\ UNCHANGED <<git_vars, build_vars, docs_vars>>

\* process_iter comes to a process that has exited: it is left out
IterGone ==
    /\ qemu_pc \in {"processes", "count"}
    /\ iter_pids # <<>>
    /\ ~Alive(proc_table, Head(iter_pids))
    /\ iter_pids' = Tail(iter_pids)
    /\ UNCHANGED <<proc_table, qemu_pc, processes, qemu_response, table_changed>>
    /\ UNCHANGED <<git_vars, build_vars, docs_vars>>

\* one pass of the for loop that ends normally
IterProc ==
    /\ qemu_pc \in {"processes", "count"}
    /\ iter_pids # <<>>
    /\ Alive(proc_table, Head(iter_pids))
    /\ loop_body(proc_table[Head(iter_pids)]) # "raise"
    /\ processes' =
          IF loop_body(proc_table[Head(iter_pids)]) = "append"
          THEN Append(processes, qemu_entry(Head(iter_pids), proc_table[Head(iter_pids)]))
          ELSE processes
    /\ iter_pids' = Tail(iter_pids)
    /\ UNCHANGED <<proc_table, qemu_pc, qemu_response, table_changed>>
    /\ UNCHANGED <<git_vars, build_vars, docs_vars>>

\* one pass of the for loop that raises: the exception leaves
\* get_qemu_processes and the view, and the 500 handler answers
IterRaise ==
    /\ qemu_pc \in {"processes", "count"}
    /\ iter_pids # <<>>
    /\ Alive(proc_table, Head(iter_pids))
    /\ loop_body(proc_table[Head(iter_pids)]) = "raise"
    /\ qemu_pc' = "raised"
    /\ qemu_response' = [status |-> 500, processes |-> <<>>, count |-> 0]
    /\ iter_pids' = <<>>
    /\ processes' = <<>>
    /\ UNCHANGED <<proc_table, table_changed>>
    /\ UNCHANGED <<git_vars, build_vars, docs_vars>>

\* the first call returns: 'processes' is set, the second call starts
ProcessesListed ==
    /\ qemu_pc = "processes"
    /\ iter_pids = <<>>
    /\ qemu_response' = [qemu_response EXCEPT !.processes = processes]
    /\ qemu_pc' = "count"
    /\ iter_pids' = pids_from(proc_table, 1)
    /\ processes' = <<>>
    /\ UNCHANGED <<proc_table, table_changed>>
    /\ UNCHANGED <<git_vars, build_vars, docs_vars>>

\* the second call returns: 'count' is its length, the response is sent
CountTaken ==
    /\ qemu_pc = "count"
    /\ iter_pids = <<>>
    /\ qemu_response' = [qemu_response EXCEPT !.count = Len(processes), !.status = 200]
    /\ qemu_pc' = "responded"
    /\ processes' = <<>>
    /\ UNCHANGED <<proc_table, iter_pids, table_changed>>
    /\ UNCHANGED <<git_vars, build_vars, docs_vars>>

QemuDone ==
    /\ qemu_pc \in {"responded", "raised"}
    /\ qemu_pc' = "idle"
    /\ qemu_response' = NoList
    /\ table_changed' = FALSE
    /\ UNCHANGED <<proc_table, iter_pids, processes>>
    /\ UNCHANGED <<git_vars, build_vars, docs_vars>>

(* The operating system: processes start and exit at any time *)

ProcStarts ==
    /\ \E pid \in Pids, proc \in Procs :
          /\ ~Alive(proc_table, pid)
          /\ proc_table' = [proc_table EXCEPT ![pid] = proc]
    /\ table_changed' = (qemu_pc \in {"processes", "count"} \/ table_changed)
    /\ UNCHANGED <<qemu_pc, iter_pids, processes, qemu_response>>
    /\ UNCHANGED <<git_vars, build_vars, docs_vars>>

ProcExits ==
    /\ \E pid \in Pids :
          /\ Alive(proc_table, pid)
          /\ proc_table' = [proc_table EXCEPT ![pid] = NoProc]
    /\ table_changed' = (qemu_pc \in {"processes", "count"} \/ table_changed)
    /\ UNCHANGED <<qemu_pc, iter_pids, processes, qemu_response>>
    /\ UNCHANGED <<git_vars, build_vars, docs_vars>>

QemuIdle ==
    /\ proc_table = [pid \in Pids |-> NoProc]
    /\ qemu_pc = "idle"
    /\ iter_pids = <<>>
    /\ processes = <<>>
    /\ qemu_response = NoList
    /\ table_changed = FALSE
-----------------------------------------------------------------------------
(* Specifications: one per component, the other components at rest *)

BuildIdle ==
    /\ oe_init_exists = FALSE
    /\ local_conf = NoConf
    /\ build_tree = NoTree
    /\ tz = "UTC"
    /\ build_pc = "idle"
    /\ build_status = NoStatus

NextGit == ApiGit \/ RunBranch \/ RunCommit \/ RunStatus \/ GitReturn

InitSpecGit == InitGit /\ BuildIdle /\ DocsIdle /\ QemuIdle

SpecGit == InitSpecGit /\ [][NextGit]_vars

\* every configuration file, a few image trees
InitConf ==
    /\ oe_init_exists \in BOOLEAN
    /\ local_conf \in LocalConfs
    /\ build_tree \in SomeTrees
    /\ tz = "UTC"
    /\ build_pc = "idle"
    /\ build_status = NoStatus

\* every image tree in every zone, a few configuration files
InitImages ==
    /\ oe_init_exists \in BOOLEAN
    /\ local_conf \in SomeConfs
    /\ build_tree \in BuildTrees
    /\ tz \in Zones
    /\ build_pc = "idle"
    /\ build_status = NoStatus

NextBuild == GetBuildStatus \/ BuildDone

InitSpecConf == InitConf /\ InitGit /\ DocsIdle /\ QemuIdle

SpecConf == InitSpecConf /\ [][NextBuild]_vars

InitSpecImages == InitImages /\ InitGit /\ DocsIdle /\ QemuIdle

SpecImages == InitSpecImages /\ [][NextBuild]_vars

InitDocs ==
    /\ docs_fs \in DocTrees
    /\ docs_request = NoRequest
    /\ docs_response = NoResponse

NextDocs == ApiDocs \/ DocsDone

InitSpecDocs == InitDocs /\ InitGit /\ BuildIdle /\ QemuIdle

SpecDocs == InitSpecDocs /\ [][NextDocs]_vars

NextQemu ==
    \/ ApiQemuList \/ IterGone \/ IterProc \/ IterRaise
    \/ ProcessesListed \/ CountTaken \/ QemuDone
    \/ ProcStarts \/ ProcExits

InitSpecQemu == QemuIdle /\ InitGit /\ BuildIdle /\ DocsIdle

SpecQemu == InitSpecQemu /\ [][NextQemu]_vars

-----------------------------------------------------------------------------
(* CommandRunner and GitInspector *)

GitResult(c) ==
    CASE c = "branch" -> branch_result
      [] c = "commit" -> commit_result
      [] c = "status" -> status_result

Succeeded(o) == o.kind = "completed" /\ o.returncode = 0

NonBlank(s) == \E i \in 1..Len(s) : s[i] \notin Whitespace

\* C1: whenever a command ran into the 30-second timeout, run_command
\* returned success = false, an empty stdout, stderr "Command timed out" and
\* exit code -1.
C1_TimeoutResult ==
    \A c \in GitCommands :
        git_outcome[c].kind = "TimeoutExpired" =>
            GitResult(c) = [success |-> FALSE, stdout |-> <<>>,
                            stderr |-> "Command timed out", returncode |-> -1]

C1_Witness ==
    /\ git_pc = "returned"
    /\ git_outcome["status"].kind = "TimeoutExpired"
    /\ git_outcome["branch"].kind = "completed"

\* C2: the dirty field get_git_info returns is true exactly when the status
\* command succeeded and its output is not blank; it is false when the status
\* command failed, whatever it wrote.
C2_DirtyIff ==
    git_pc = "returned" =>
        (git_info.dirty <=>
            (Succeeded(git_outcome["status"]) /\ NonBlank(git_outcome["status"].stdout)))

C2_Witness ==
    /\ git_pc = "returned"
    /\ git_outcome["status"].kind = "completed"
    /\ git_outcome["status"].returncode # 0
    /\ NonBlank(git_outcome["status"].stdout)
    /\ git_info.dirty = FALSE

\* C3: whatever each of the three commands did, get_git_info returns all four
\* fields, and branch and commit are each the trimmed output of their own
\* command when it succeeded and "unknown" when it failed.
C3_BranchCommitIndependent ==
    git_pc = "returned" =>
        /\ DOMAIN git_info = {"branch", "commit", "dirty", "status"}
        /\ git_info.branch = IF Succeeded(git_outcome["branch"])
                              THEN Strip(git_outcome["branch"].stdout) ELSE unknown
        /\ git_info.commit = IF Succeeded(git_outcome["commit"])
                              THEN Strip(git_outcome["commit"].stdout) ELSE unknown

C3_Witness ==
    /\ git_pc = "returned"
    /\ git_outcome["branch"].kind = "OSError"
    /\ Succeeded(git_outcome["commit"])
    /\ git_outcome["status"].kind = "TimeoutExpired"
    /\ git_info.branch = unknown
    /\ git_info.commit = <<"m">>

-----------------------------------------------------------------------------
(* BuildStatusReader *)

\* C4: configured is true exactly when oe-init-build-env exists, whatever
\* conf/local.conf and the BUILD tree hold.
C4_ConfiguredIffMarker ==
    build_pc = "returned" => (build_status.configured <=> oe_init_exists)

C4_Witness ==
    /\ build_pc = "returned"
    /\ ~oe_init_exists
    /\ local_conf.exists /\ local_conf.readable
    /\ build_tree.entries # <<>>
    /\ build_status.builds # <<>>
    /\ build_status.configured = FALSE

MachineLines(lines) == {i \in 1..Len(lines) : StartsWith(Strip(lines[i]), MACHINE)}

FirstMachineLine(lines) ==
    lines[CHOOSE i \in MachineLines(lines) : \A j \in MachineLines(lines) : i <= j]

\* everything behind the first occurrence of sep
AfterFirst(s, sep) ==
    LET k == CHOOSE i \in 1..Len(s) : s[i] = sep /\ \A j \in 1..(i - 1) : s[j] # sep
    IN  SubSeq(s, k + 1, Len(s))

\* C5: with the build configured and local.conf readable, machine is null
\* when no line starts with MACHINE, and otherwise is what follows the first
\* '=' of the first such line, later '=' included, trimmed and unquoted.
C5_MachineAfterFirstEquals ==
    (build_pc = "returned" /\ oe_init_exists /\ local_conf.exists /\ local_conf.readable) =>
        IF MachineLines(local_conf.lines) = {}
        THEN build_status.machine = Null
        ELSE LET line == FirstMachineLine(local_conf.lines)
             IN  ("=" \in {line[i] : i \in 1..Len(line)}) =>
                    build_status.machine =
                        StripChars(StripChars(Strip(AfterFirst(line, "=")), {"\""}), {"'"})

\* the modification time of the file a builds entry stands for
MTimeOf(b) ==
    LET d == CHOOSE e \in {build_tree.entries[i] : i \in 1..Len(build_tree.entries)} :
                 e.name = b.machine
        f == CHOOSE x \in {d.files[i] : i \in 1..Len(d.files)} : x.name = b.image
    IN  f.mtime

\* the *.wic files in the immediate subdirectories of the deploy directory
WicFiles ==
    IF ~(build_tree.build_dir /\ build_tree.deploy_dir) THEN {}
    ELSE {<<build_tree.entries[i].name, build_tree.entries[i].files[j].name>> :
             <<i, j>> \in {p \in (1..Len(build_tree.entries)) \X (1..2) :
                             /\ build_tree.entries[p[1]].is_dir
                             /\ p[2] <= Len(build_tree.entries[p[1]].files)
                             /\ IsWic(build_tree.entries[p[1]].files[p[2]].name)}}

\* C6: builds holds one entry per *.wic file, no entry is followed by one
\* modified later, and last_build is the first entry, or null without entries.
C6_NewestFirst ==
    build_pc = "returned" =>
        LET builds == build_status.builds
        IN  /\ Len(builds) = Cardinality(WicFiles)
            /\ {<<builds[i].machine, builds[i].image>> : i \in 1..Len(builds)} = WicFiles
            /\ \A i, j \in 1..Len(builds) : i < j => MTimeOf(builds[i]) >= MTimeOf(builds[j])
            /\ IF builds = <<>> THEN build_status.last_build = Null
               ELSE build_status.last_build = builds[1]

-----------------------------------------------------------------------------
(* DocRenderer *)

Responded == docs_response.status # 0

RequestedNode == DocNode(docs_fs, docs_request.filename)

\* the read or the conversion fails on the requested path
ReadOrConvertError ==
    \/ RequestedNode.kind = "dir"
    \/ RequestedNode.kind = "file" /\ ~RequestedNode.readable
    \/ /\ RequestedNode.kind = "file"
       /\ EndsWithMd(docs_request.filename)
       /\ docs_request.md_raises

\* C7: the answer is 404 with "Documentation file not found" exactly when
\* the requested path does not exist; a read or conversion error on an existing
\* path is answered 500 with a message; every other request is answered 200,
\* as "html" for a name ending in .md and as "text" with the file's content
\* otherwise.
C7_DocsStatus ==
    Responded =>
        /\ docs_response.status = 404 <=> RequestedNode.kind = "absent"
        /\ docs_response.status = 404 =>
              docs_response.body = [error |-> "Documentation file not found"]
        /\ (RequestedNode.kind # "absent" /\ ReadOrConvertError) =>
              /\ docs_response.status = 500
              /\ DOMAIN docs_response.body = {"error"}
              /\ docs_response.body.error # "Documentation file not found"
        /\ (RequestedNode.kind # "absent" /\ ~ReadOrConvertError) =>
              /\ docs_response.status = 200
              /\ docs_response.body.filename = docs_request.filename
              /\ docs_response.body.format =
                    IF EndsWithMd(docs_request.filename) THEN "html" ELSE "text"
              /\ ~EndsWithMd(docs_request.filename) =>
                    docs_response.body.content = RequestedNode.content

C7_Witness ==
    /\ Responded
    /\ docs_request.filename = <<"sub", "..", "notes.txt">>
    /\ RequestedNode.kind = "file" /\ ~RequestedNode.readable
    /\ docs_response.status = 500

IsPrefix(p, s) == Len(p) <= Len(s) /\ SubSeq(s, 1, Len(p)) = p

\* C9: a request answered with a file's content read that file inside the
\* documentation root.
C9_InsideDocsRoot ==
    (Responded /\ docs_response.status = 200) =>
        IsPrefix(DOCS_DIR, doc_path(docs_fs, docs_request.filename))

-----------------------------------------------------------------------------
(* ProcessInspector *)

\* the running processes get_qemu_processes is to report
QemuPids ==
    {pid \in Pids : /\ Alive(proc_table, pid)
                    /\ proc_table[pid].denied \in {"nothing", "cmdline"}
                    /\ Contains(Lower(proc_table[pid].name), qemu)}

\* C8: a process whose attributes cannot be read is skipped: the
\* enumeration does not raise, and with the process table unchanged during the
\* request every readable qemu process is listed.
C8_SkipOnlyDenied ==
    /\ qemu_pc # "raised"
    /\ (qemu_pc = "responded" /\ ~table_changed) =>
          {qemu_response.processes[i].pid : i \in 1..Len(qemu_response.processes)} = QemuPids

\* C10: in every response of /api/qemu/list, count is the length of
\* processes.
C10_CountMatches ==
    qemu_pc = "responded" => qemu_response.count = Len(qemu_response.processes)

====
